---- MODULE Spec2Model ----
(***************************************************************************)
(* Standings aggregation of the NBA dashboard backend (app.py):            *)
(* compute_standings_from_csv, compute_streak and the /api/standings       *)
(* handler; and the incremental update of the quarters CSV                 *)
(* (getQuarters.py: main, cleanup_and_write), described where it starts.   *)
(*                                                                         *)
(* Representation of the Python values:                                    *)
(*  - a CSV row is a record of its columns.  A missing column (None) and   *)
(*    an empty one ("") are both falsy and the code only tests their       *)
(*    truthiness, so both are the empty value of the field;                *)
(*  - TEAM_ID and PTS are sequences of characters, parsed by IntOpt as     *)
(*    int() parses them; an optional int is <<>> (None / ValueError) or    *)
(*    <<n>>;                                                               *)
(*  - MATCHUP is the sequence of its lexemes: maximal runs of blanks (" ") *)
(*    and maximal runs of non-blanks (the tokens str.split() returns);     *)
(*  - TEAM_NAME is the sequence of its code points, compared as Python     *)
(*    compares str values;                                                 *)
(*  - the float wins / games_played is the exact fraction <<wins, games>>, *)
(*    compared by cross multiplication (exact for the small integers of    *)
(*    the model, where IEEE division is monotone and injective);           *)
(*  - an insertion-ordered dict is the sequence of its items.              *)
(***************************************************************************)
EXTENDS Integers, Sequences, FiniteSets, TLC

VARIABLES
    csv_exists,     \* os.path.exists(CSV_PATH)
    csv,            \* the data rows of the file, in file order
    pc,             \* position inside api_standings / compute_standings_from_csv
    games,          \* games: gid -> list of rows, in insertion order
    gi,             \* number of items of games.items() already iterated
    team_stats,     \* team_stats: team_id -> accumulator, in insertion order
    rows_final,     \* rows_final
    warnings,       \* warnings
    response,       \* the JSON body api_standings returns
    results,        \* argument of a direct compute_streak call
    streak,         \* its return value
    out_file,       \* getQuarters: OUTPUT_FILE on disk, <<>> when absent
    existing_df,    \* getQuarters.main: existing_df, <<>> for None
    games_df,       \* getQuarters.main: the GAME_ID column of games_df
    day_rows,       \* getQuarters.main: the rows of the scoreboard responses
    all_rows,       \* getQuarters.main: all_rows
    qpc,            \* position inside getQuarters.main
    wrote           \* whether the last run of main reached to_csv

\* the state of getQuarters.py
qvars == <<out_file, existing_df, games_df, day_rows, all_rows, qpc, wrote>>

\* the state of app.py
appvars == <<csv_exists, csv, pc, games, gi, team_stats, rows_final, warnings,
             response, results, streak>>

vars == <<appvars, qvars>>

----------------------------------------------------------------------------
\* Bounds of the model

MaxRows == 4
MaxGames == 3
MaxResults == 10
MaxFileRows == 2
MaxOrderRows == 4

----------------------------------------------------------------------------
\* Static configuration

East ==
    {"ATL", "BOS", "BKN", "CHA", "CHI", "CLE", "DET", "IND", "MIA", "MIL",
     "NYK", "ORL", "PHI", "TOR", "WAS"}

West ==
    {"DAL", "DEN", "GSW", "HOU", "LAC", "LAL", "MEM", "MIN", "NOP", "OKC",
     "PHX", "POR", "SAC", "SAS", "UTA"}

CONF_BY_TRICODE(tricode) ==
    IF tricode \in East THEN "East"
    ELSE IF tricode \in West THEN "West"
    ELSE ""

----------------------------------------------------------------------------
\* General helpers

DigitVal ==
    ("0" :> 0) @@ ("1" :> 1) @@ ("2" :> 2) @@ ("3" :> 3) @@ ("4" :> 4) @@
    ("5" :> 5) @@ ("6" :> 6) @@ ("7" :> 7) @@ ("8" :> 8) @@ ("9" :> 9)

DigitChar ==
    <<"0", "1", "2", "3", "4", "5", "6", "7", "8", "9">>

RECURSIVE DigitsValue(_)
DigitsValue(s) ==
    IF s = <<>> THEN 0
    ELSE 10 * DigitsValue(SubSeq(s, 1, Len(s) - 1)) + DigitVal[s[Len(s)]]

\* int(s) of a str: <<n>>, or <<>> when int() raises ValueError.  The inputs
\* of the model hold no sign, blank or underscore.
IntOpt(s) ==
    IF Len(s) > 0 /\ \A i \in 1..Len(s) : s[i] \in DOMAIN DigitVal
    THEN <<DigitsValue(s)>>
    ELSE <<>>

safe_int(value) ==
    IF value = <<>> THEN <<>> ELSE IntOpt(value)

\* str(n) of a non-negative int, as f"{count}" formats it
RECURSIVE IntToStr(_)
IntToStr(n) ==
    IF n < 10 THEN <<DigitChar[n + 1]>>
    ELSE IntToStr(n \div 10) \o <<DigitChar[(n % 10) + 1]>>

\* compute_streak counting every result equal to the last one
RECURSIVE CountRun_All(_, _, _)
CountRun_All(rs, last, i) ==
    IF i = 0 THEN 0
    ELSE (IF rs[i] = last THEN 1 ELSE 0) + CountRun_All(rs, last, i - 1)

RECURSIVE CountRun(_, _, _)
CountRun(rs, last, i) ==
    IF i = 0 THEN 0
    ELSE IF rs[i] = last THEN 1 + CountRun(rs, last, i - 1)
    ELSE 0

compute_streak(rs) ==
    IF rs = <<>> THEN <<>>
    ELSE LET last == rs[Len(rs)]
             count == CountRun(rs, last, Len(rs))
             sign == IF last = "W" THEN "+" ELSE "-"
         IN <<sign>> \o IntToStr(count)

----------------------------------------------------------------------------
\* Reading the CSV and grouping its rows by GAME_ID

\* a new game id put in front of the groups instead of behind them
AddRow_Front(gs, gid, row) ==
    IF \E i \in 1..Len(gs) : gs[i].gid = gid
    THEN LET i == CHOOSE j \in 1..Len(gs) : gs[j].gid = gid
         IN [gs EXCEPT ![i].rows = Append(@, row)]
    ELSE <<[gid |-> gid, rows |-> <<row>>]>> \o gs

AddRow(gs, gid, row) ==
    IF \E i \in 1..Len(gs) : gs[i].gid = gid
    THEN LET i == CHOOSE j \in 1..Len(gs) : gs[j].gid = gid
         IN [gs EXCEPT ![i].rows = Append(@, row)]
    ELSE Append(gs, [gid |-> gid, rows |-> <<row>>])

RECURSIVE GroupRows(_, _)
GroupRows(rows, gs) ==
    IF rows = <<>> THEN gs
    ELSE LET row == Head(rows)
             gid == row.GAME_ID
         IN IF gid = "" THEN GroupRows(Tail(rows), gs)
            ELSE GroupRows(Tail(rows), AddRow(gs, gid, row))

----------------------------------------------------------------------------
\* One iteration of the loop over games.items()

IsToken(p) == p # " "

Split(matchup) == SelectSeq(matchup, IsToken)

MatchupOf(a, b) ==
    IF a.MATCHUP # <<>> THEN a.MATCHUP
    ELSE IF b.MATCHUP # <<>> THEN b.MATCHUP
    ELSE <<>>

HasAt(parts) == \E i \in 1..Len(parts) : parts[i] = "@"

\* the tiers tried in the other order: three tokens first, then the "@"
HomeCode_VsFirst(a, b) ==
    LET parts == Split(MatchupOf(a, b))
    IN IF Len(parts) >= 3 THEN parts[1]
       ELSE IF HasAt(parts) THEN parts[Len(parts)]
       ELSE a.TEAM_ABBREVIATION

HomeCode(a, b) ==
    LET parts == Split(MatchupOf(a, b))
    IN IF HasAt(parts) THEN parts[Len(parts)]
       ELSE IF Len(parts) >= 3 THEN parts[1]
       ELSE a.TEAM_ABBREVIATION

AwayCode(a, b) ==
    LET parts == Split(MatchupOf(a, b))
    IN IF HasAt(parts) THEN parts[1]
       ELSE IF Len(parts) >= 3 THEN parts[Len(parts)]
       ELSE b.TEAM_ABBREVIATION

\* rows_by_code.get(code): the position (1 = a, 2 = b) of the row stored
\* under code, 0 when there is none; the entry of b overwrites that of a.
RowsByCodeGet(a, b, code) ==
    IF b.TEAM_ABBREVIATION = code THEN 2
    ELSE IF a.TEAM_ABBREVIATION = code THEN 1
    ELSE 0

HomeIdx(a, b) ==
    LET found == RowsByCodeGet(a, b, HomeCode(a, b))
    IN IF found # 0 THEN found ELSE 1

AwayIdx(a, b) ==
    LET found == RowsByCodeGet(a, b, AwayCode(a, b))
    IN IF found # 0 THEN found ELSE 2

\* int(row.get("PTS")): no default for a missing value
PtsOf_MissingRaises(row) == IntOpt(row.PTS)

\* int(row.get("PTS") or 0): <<n>>, or <<>> when it raises ValueError
PtsOf(row) ==
    IF row.PTS = <<>> THEN <<0>> ELSE IntOpt(row.PTS)

NewStats(team_id, tricode, name) ==
    [key |-> team_id,
     team_id |-> safe_int(team_id),
     tricode |-> tricode,
     team |-> name,
     city |-> "",
     name |-> name,
     conf |-> CONF_BY_TRICODE(tricode),
     wins |-> 0, losses |-> 0,
     home_w |-> 0, home_l |-> 0, away_w |-> 0, away_l |-> 0,
     results |-> <<>>, home_results |-> <<>>, away_results |-> <<>>]

HasStats(stats, team_id) == \E i \in 1..Len(stats) : stats[i].key = team_id

StatsIdx(stats, team_id) == CHOOSE i \in 1..Len(stats) : stats[i].key = team_id

\* team_stats after get_stats(team_id, tricode, name)
get_stats(stats, team_id, tricode, name) ==
    IF HasStats(stats, team_id) THEN stats
    ELSE Append(stats, NewStats(team_id, tricode, name))

\* the loss branch without losses += 1
Credit_NoLossCount(s, is_home, result) ==
    LET counted ==
            IF result = "W"
            THEN [s EXCEPT !.wins = @ + 1,
                           !.home_w = IF is_home THEN @ + 1 ELSE @,
                           !.away_w = IF is_home THEN @ ELSE @ + 1]
            ELSE [s EXCEPT !.home_l = IF is_home THEN @ + 1 ELSE @,
                           !.away_l = IF is_home THEN @ ELSE @ + 1]
    IN [counted EXCEPT !.results = Append(@, result),
                       !.home_results = IF is_home THEN Append(@, result) ELSE @,
                       !.away_results = IF is_home THEN @ ELSE Append(@, result)]

\* the win branch counting a road win in away_l
Credit_RoadWinAsLoss(s, is_home, result) ==
    LET counted ==
            IF result = "W"
            THEN [s EXCEPT !.wins = @ + 1,
                           !.home_w = IF is_home THEN @ + 1 ELSE @,
                           !.away_l = IF is_home THEN @ ELSE @ + 1]
            ELSE [s EXCEPT !.losses = @ + 1,
                           !.home_l = IF is_home THEN @ + 1 ELSE @,
                           !.away_l = IF is_home THEN @ ELSE @ + 1]
    IN [counted EXCEPT !.results = Append(@, result),
                       !.home_results = IF is_home THEN Append(@, result) ELSE @,
                       !.away_results = IF is_home THEN @ ELSE Append(@, result)]

Credit(s, is_home, result) ==
    LET counted ==
            IF result = "W"
            THEN [s EXCEPT !.wins = @ + 1,
                           !.home_w = IF is_home THEN @ + 1 ELSE @,
                           !.away_w = IF is_home THEN @ ELSE @ + 1]
            ELSE [s EXCEPT !.losses = @ + 1,
                           !.home_l = IF is_home THEN @ + 1 ELSE @,
                           !.away_l = IF is_home THEN @ ELSE @ + 1]
    IN [counted EXCEPT !.results = Append(@, result),
                       !.home_results = IF is_home THEN Append(@, result) ELSE @,
                       !.away_results = IF is_home THEN @ ELSE Append(@, result)]

\* body of the inner loop for one side of a counted game
CreditRow(stats, row, is_home, result) ==
    IF row.TEAM_ID = <<>> \/ row.TEAM_ABBREVIATION = "" THEN stats
    ELSE LET st == get_stats(stats, row.TEAM_ID, row.TEAM_ABBREVIATION,
                             row.TEAM_NAME)
             i == StatsIdx(st, row.TEAM_ID)
         IN [st EXCEPT ![i] = Credit(@, is_home, result)]

\* home_pts >= away_pts in the first comparison
Outcome_TieHomeWin(home_pts, away_pts) ==
    IF home_pts >= away_pts THEN <<"W", "L">>
    ELSE <<"L", "W">>

\* outcome of a two-row group: "skip", or the results of home and away
Outcome(home_pts, away_pts) ==
    IF home_pts > away_pts THEN <<"W", "L">>
    ELSE IF home_pts < away_pts THEN <<"L", "W">>
    ELSE <<>>

\* len(team_rows) < 2 as the test for a malformed group
PairOfRows_AtLeast(team_rows) == Len(team_rows) >= 2

\* the groups the loop does not skip at once
PairOfRows(team_rows) == Len(team_rows) = 2

\* team_stats after the loop body has run on one item of games
ProcessGame(stats, team_rows) ==
    IF ~PairOfRows(team_rows) THEN stats
    ELSE LET a == team_rows[1]
             b == team_rows[2]
             home_row == team_rows[HomeIdx(a, b)]
             away_row == team_rows[AwayIdx(a, b)]
             home_pts == PtsOf(home_row)
             away_pts == PtsOf(away_row)
         IN IF home_pts = <<>> \/ away_pts = <<>> THEN stats
            ELSE LET res == Outcome(home_pts[1], away_pts[1])
                 IN IF res = <<>> THEN stats
                    ELSE CreditRow(CreditRow(stats, home_row, TRUE, res[1]),
                                   away_row, FALSE, res[2])

----------------------------------------------------------------------------
\* Final rows and their order

\* losses / games_played
WinPct_LossShare(wins, losses) ==
    IF wins + losses # 0 THEN <<losses, wins + losses>> ELSE <<0, 1>>

WinPct(wins, losses) ==
    IF wins + losses # 0 THEN <<wins, wins + losses>> ELSE <<0, 1>>

FinalRow(s) ==
    [team_id |-> s.team_id,
     tricode |-> s.tricode,
     team |-> s.team,
     city |-> s.city,
     name |-> s.name,
     conf |-> s.conf,
     wins |-> s.wins,
     losses |-> s.losses,
     win_pct |-> WinPct(s.wins, s.losses),
     home_w |-> s.home_w,
     home_l |-> s.home_l,
     road_w |-> s.away_w,
     road_l |-> s.away_l,
     streak |-> compute_streak(s.results),
     streak_home |-> compute_streak(s.home_results),
     streak_away |-> compute_streak(s.away_results),
     league_rank |-> "None",
     playoff_rank |-> "None"]

BuildRows(stats) == [i \in 1..Len(stats) |-> FinalRow(stats[i])]

\* x < y for two floats given as fractions with positive denominators
FracLess(x, y) == x[1] * y[2] < y[1] * x[2]

\* s < t for two str values
StrLess(s, t) ==
    \E k \in 1..(Len(t)) :
        /\ \A j \in 1..(k - 1) : j <= Len(s) /\ s[j] = t[j]
        /\ k - 1 <= Len(s)
        /\ (k > Len(s) \/ s[k] < t[k])

\* key = (-win_pct, team or ""), without the wins
KeyLess_NoWins(r1, r2) ==
    \/ r2.win_pct[1] * r1.win_pct[2] < r1.win_pct[1] * r2.win_pct[2]
    \/ /\ r2.win_pct[1] * r1.win_pct[2] = r1.win_pct[1] * r2.win_pct[2]
       /\ \E k \in 1..Len(r2.team) :
            /\ \A j \in 1..(k - 1) : j <= Len(r1.team) /\ r1.team[j] = r2.team[j]
            /\ k - 1 <= Len(r1.team)
            /\ (k > Len(r1.team) \/ r1.team[k] < r2.team[k])

\* key(r1) < key(r2) for key = (-win_pct, -wins, team or "")
KeyLess(r1, r2) ==
    \/ FracLess(r2.win_pct, r1.win_pct)
    \/ /\ ~FracLess(r1.win_pct, r2.win_pct)
       /\ ~FracLess(r2.win_pct, r1.win_pct)
       /\ \/ r2.wins < r1.wins
          \/ r1.wins = r2.wins /\ StrLess(r1.team, r2.team)

\* list.sort is stable: a row goes after every row whose key is not greater
RECURSIVE InsertRow(_, _)
InsertRow(sorted, r) ==
    IF sorted = <<>> THEN <<r>>
    ELSE IF KeyLess(r, sorted[Len(sorted)])
         THEN Append(InsertRow(SubSeq(sorted, 1, Len(sorted) - 1), r),
                     sorted[Len(sorted)])
         ELSE Append(sorted, r)

RECURSIVE SortRows(_)
SortRows(rows) ==
    IF rows = <<>> THEN <<>>
    ELSE InsertRow(SortRows(SubSeq(rows, 1, Len(rows) - 1)), rows[Len(rows)])

----------------------------------------------------------------------------
\* The inputs: contents of the CSV file

Rockets == <<82, 111>>
Thunder == <<84, 104>>
Celtics == <<67, 101>>
NoName == <<>>

\* (TEAM_ID, TEAM_ABBREVIATION, TEAM_NAME) of a row
HOU == <<<<"4", "5">>, "HOU", Rockets>>
OKC == <<<<"6", "0">>, "OKC", Thunder>>
BOS_NoId == <<<<>>, "BOS", Celtics>>
LAL == <<<<"4", "7">>, "LAL", NoName>>
LAC == <<<<"4", "6">>, "LAC", NoName>>

GameIds ==
    <<"0022500001", "0022500002", "0022500003", "0022500004", "0022500005">>

Pts98 == <<"9", "8">>
Pts101 == <<"1", "0", "1">>

MkRow(gid, t, pts, matchup) ==
    [GAME_ID |-> gid, TEAM_ID |-> t[1], TEAM_ABBREVIATION |-> t[2],
     TEAM_NAME |-> t[3], PTS |-> pts, MATCHUP |-> matchup]

AtMatchup(away, home) == <<away[2], " ", "@", " ", home[2]>>
VsMatchup(home, away) == <<home[2], " ", "vs.", " ", away[2]>>

\* Rows of any shape: the kinds of (team, PTS, MATCHUP) a row is drawn from
\* (well-formed, PTS missing, PTS not a number, TEAM_ID missing), under
\* either of two game ids, and one row without GAME_ID.
RowKinds ==
    {<<HOU, Pts98, <<>>>>,
     <<HOU, Pts101, AtMatchup(HOU, OKC)>>,
     <<OKC, Pts101, <<>>>>,
     <<OKC, <<>>, <<>>>>,
     <<OKC, <<"x">>, <<>>>>,
     <<BOS_NoId, Pts98, <<>>>>}

RowDomain ==
    {MkRow(GameIds[g], k[1], k[2], k[3]) : g \in 1..2, k \in RowKinds}
        \cup {MkRow("", HOU, Pts101, <<>>)}

\* the files of n rows
CsvInputs(n) == [1..n -> RowDomain]

\* Well-formed seasons: every game has its two rows, adjacent, each with the
\* MATCHUP of its own side, the winner with 101 points and the loser with 98.
GameRows(gid, home, away, home_wins, home_first) ==
    LET hr == MkRow(gid, home, IF home_wins THEN Pts101 ELSE Pts98,
                    VsMatchup(home, away))
        ar == MkRow(gid, away, IF home_wins THEN Pts98 ELSE Pts101,
                    AtMatchup(away, home))
    IN IF home_first THEN <<hr, ar>> ELSE <<ar, hr>>

\* the fixtures (home, away) of the seasons drawn
SeasonPairs ==
    {<<HOU, LAL>>, <<LAL, HOU>>, <<LAL, LAC>>, <<LAC, LAL>>}

\* (home, away, home_wins, home_first) of a game
GameDomain ==
    {<<p[1], p[2], w, f>> : p \in SeasonPairs, w \in BOOLEAN, f \in BOOLEAN}

RECURSIVE SeasonRows(_, _)
SeasonRows(gs, n) ==
    IF n = 0 THEN <<>>
    ELSE SeasonRows(gs, n - 1)
            \o GameRows(GameIds[n], gs[n][1], gs[n][2], gs[n][3], gs[n][4])

\* the files of n well-formed games
SeasonInputs(n) == {SeasonRows(gs, n) : gs \in [1..n -> GameDomain]}

\* the result lists of n results
StreakInputs(n) == [1..n -> {"W", "L"}]

----------------------------------------------------------------------------
\* api_standings and, inside it, compute_standings_from_csv

NotFoundWarning == "CSV nao encontrado"
ProcessingWarning == "Erro ao processar CSV de standings"

Idle ==
    /\ results = <<>>
    /\ streak = <<>>

\* getQuarters.py is not running and has left no file
QuartersIdle ==
    /\ out_file = <<>>
    /\ existing_df = <<>>
    /\ games_df = {}
    /\ day_rows = <<>>
    /\ all_rows = <<>>
    /\ qpc = "idle"
    /\ wrote = FALSE

Fresh ==
    /\ pc = "start"
    /\ games = <<>>
    /\ gi = 0
    /\ team_stats = <<>>
    /\ rows_final = <<>>
    /\ warnings = <<>>
    /\ response = [ok |-> FALSE, rows |-> <<>>, warnings |-> <<>>]

Init ==
    /\ csv_exists \in BOOLEAN
    /\ \E n \in 0..MaxRows :
        csv \in (IF csv_exists THEN CsvInputs(n) ELSE {<<>>})
    /\ Fresh
    /\ Idle
    /\ QuartersIdle

InitSeason ==
    /\ csv_exists \in BOOLEAN
    /\ \E n \in 0..MaxGames :
        csv \in (IF csv_exists THEN SeasonInputs(n) ELSE {<<>>})
    /\ Fresh
    /\ Idle
    /\ QuartersIdle

InitStreak ==
    /\ csv_exists = FALSE
    /\ csv = <<>>
    /\ games = <<>>
    /\ gi = 0
    /\ team_stats = <<>>
    /\ rows_final = <<>>
    /\ warnings = <<>>
    /\ response = [ok |-> FALSE, rows |-> <<>>, warnings |-> <<>>]
    /\ pc = "streak"
    /\ \E n \in 0..MaxResults : results \in StreakInputs(n)
    /\ streak = <<>>
    /\ QuartersIdle

\* os.path.exists(CSV_PATH) is false
CsvMissing ==
    /\ pc = "start"
    /\ ~csv_exists
    /\ warnings' = Append(warnings, NotFoundWarning)
    /\ pc' = "return"
    /\ UNCHANGED <<csv_exists, csv, games, gi, team_stats, rows_final,
                   response, results, streak,
                   qvars>>

\* the file is read and its rows grouped
ReadCsv ==
    /\ pc = "start"
    /\ csv_exists
    /\ games' = GroupRows(csv, <<>>)
    /\ team_stats' = <<>>
    /\ gi' = 0
    /\ pc' = "games"
    /\ UNCHANGED <<csv_exists, csv, rows_final, warnings, response, results,
                   streak,
                   qvars>>

\* one iteration of: for gid, team_rows in games.items()
GameStep ==
    /\ pc = "games"
    /\ gi < Len(games)
    /\ team_stats' = ProcessGame(team_stats, games[gi + 1].rows)
    /\ gi' = gi + 1
    /\ UNCHANGED <<csv_exists, csv, pc, games, rows_final, warnings, response,
                   results, streak,
                   qvars>>

\* for team_id, s in team_stats.items(): rows_final.append(row)
BuildStep ==
    /\ pc = "games"
    /\ gi = Len(games)
    /\ rows_final' = rows_final \o BuildRows(team_stats)
    /\ pc' = "sort"
    /\ UNCHANGED <<csv_exists, csv, games, gi, team_stats, warnings, response,
                   results, streak,
                   qvars>>

\* rows_final.sort(key=...)
SortStep ==
    /\ pc = "sort"
    /\ rows_final' = SortRows(rows_final)
    /\ pc' = "return"
    /\ UNCHANGED <<csv_exists, csv, games, gi, team_stats, warnings, response,
                   results, streak,
                   qvars>>

\* an except clause without rows_final = []
Handled_KeepRows(rows, warns) == <<rows, Append(warns, ProcessingWarning)>>

\* what the except clause leaves in (rows_final, warnings)
Handled(rows, warns) == <<<<>>, Append(warns, ProcessingWarning)>>

\* an exception raised inside the try block (open, read, decode, memory)
Fail ==
    /\ pc \in {"start", "games", "sort"}
    /\ csv_exists
    /\ rows_final' = Handled(rows_final, warnings)[1]
    /\ warnings' = Handled(rows_final, warnings)[2]
    /\ pc' = "return"
    /\ UNCHANGED <<csv_exists, csv, games, gi, team_stats, response, results,
                   streak,
                   qvars>>

\* ok taken from the absence of warnings
StandingsBody_OkNoWarnings(rows, warns) ==
    [ok |-> warns = <<>>, rows |-> rows, warnings |-> warns]

\* the JSON body of /api/standings
StandingsBody(rows, warns) ==
    [ok |-> rows # <<>>, rows |-> rows, warnings |-> warns]

ApiRespond ==
    /\ pc = "return"
    /\ response' = StandingsBody(rows_final, warnings)
    /\ pc' = "done"
    /\ UNCHANGED <<csv_exists, csv, games, gi, team_stats, rows_final,
                   warnings, results, streak,
                   qvars>>

Next ==
    \/ CsvMissing
    \/ ReadCsv
    \/ GameStep
    \/ BuildStep
    \/ SortStep
    \/ Fail
    \/ ApiRespond

Spec == Init /\ [][Next]_vars

SpecSeason == InitSeason /\ [][Next]_vars

\* Two-row games of every MATCHUP shape: the first row's MATCHUP is empty,
\* blank, "A @ H", "H vs. A", of two tokens, of one token holding an @, or
\* names a team that has no row; the second row's is empty or well formed.
FirstMatchups ==
    {<<>>,
     <<" ">>,
     AtMatchup(HOU, OKC),
     VsMatchup(OKC, HOU),
     <<" ", "HOU", " ", "@", " ", " ", "OKC", " ">>,
     <<"HOU", " ", "OKC">>,
     <<"@", " ", "OKC">>,
     <<"HOU@OKC">>,
     <<"OKC", " ", "vs.", " ", "the", " ", "HOU">>}

SecondMatchups == {<<>>, AtMatchup(HOU, OKC), VsMatchup(OKC, HOU)}

\* the teams of the first and of the second row
MatchupPairs ==
    {<<HOU, OKC>>, <<OKC, HOU>>, <<HOU, LAL>>, <<LAL, OKC>>, <<LAL, LAC>>}

MatchupInputs ==
    {<<MkRow(GameIds[1], t[1], Pts101, m1), MkRow(GameIds[1], t[2], Pts98, m2)>> :
        t \in MatchupPairs, m1 \in FirstMatchups, m2 \in SecondMatchups}

InitMatchup ==
    /\ csv_exists \in BOOLEAN
    /\ csv \in (IF csv_exists THEN MatchupInputs ELSE {<<>>})
    /\ Fresh
    /\ Idle
    /\ QuartersIdle

SpecMatchup == InitMatchup /\ [][Next]_vars

\* Files whose rows stand in any order: rows of HOU with 98 points and of OKC
\* with 101 points or none, without MATCHUP, under any of three game ids.
OrderKinds ==
    {<<HOU, Pts98, <<>>>>,
     <<OKC, Pts101, <<>>>>,
     <<OKC, <<>>, <<>>>>}

OrderRowDomain ==
    {MkRow(GameIds[g], k[1], k[2], k[3]) : g \in 1..3, k \in OrderKinds}

OrderInputs(n) == [1..n -> OrderRowDomain]

InitOrder ==
    /\ csv_exists \in BOOLEAN
    /\ \E n \in 0..MaxOrderRows :
        csv \in (IF csv_exists THEN OrderInputs(n) ELSE {<<>>})
    /\ Fresh
    /\ Idle
    /\ QuartersIdle

SpecOrder == InitOrder /\ [][Next]_vars

\* a call of compute_streak(results)
StreakCall ==
    /\ pc = "streak"
    /\ streak' = compute_streak(results)
    /\ pc' = "streak_done"
    /\ UNCHANGED <<csv_exists, csv, games, gi, team_stats, rows_final,
                   warnings, response, results,
                   qvars>>

NextStreak == StreakCall

SpecStreak == InitStreak /\ [][NextStreak]_vars

----------------------------------------------------------------------------
\* getQuarters.py: the incremental update of OUTPUT_FILE
\*
\* A GAME_ID is the sequence of the characters of str(x).  A data frame is a
\* record of has_season ("SEASON" in df.columns) and its rows; a row is a
\* record of GAME_ID, TEAM_ID (<<n>>, or <<>> for a blank cell), SEASON ("" for
\* NaN) and PTS.  The columns the properties do not read (the quarters, the
\* names, GAME_DATE, MATCHUP) are left out, so the written rows are ordered by
\* GAME_ID and TEAM_ID alone.  games_df is the set of its GAME_ID values.

SEASON == "2025-26"

IdWidth == 10

RECURSIVE OnlyDigits(_)
OnlyDigits(s) ==
    IF s = <<>> THEN <<>>
    ELSE (IF Head(s) \in DOMAIN DigitVal THEN <<Head(s)>> ELSE <<>>)
         \o OnlyDigits(Tail(s))

RECURSIVE zfill(_, _)
zfill(s, width) ==
    IF Len(s) >= width THEN s ELSE zfill(<<"0">> \o s, width)

normalize_game_id(x) == zfill(OnlyDigits(x), IdWidth)

\* getQuarters.safe_int: int(val), 0 when int() raises (a blank cell)
safe_int0(val) == IF val = <<>> THEN <<0>> ELSE val

\* df[col].apply(f) for the GAME_ID column
NormalizeIds(df) ==
    [df EXCEPT !.rows =
        [i \in 1..Len(@) |-> [@[i] EXCEPT !.GAME_ID = normalize_game_id(@)]]]

\* pd.read_csv infers int64 for a column of digits: str() of a cell has no
\* leading zeros
read_csv(text) ==
    [text EXCEPT !.rows =
        [i \in 1..Len(@) |->
            [@[i] EXCEPT !.GAME_ID = IntToStr(DigitsValue(@))]]]

\* load_existing_output followed by lines 242-244 of main
load_existing_output(file) ==
    IF file = <<>> THEN <<>>
    ELSE <<NormalizeIds(read_csv(file[1]))>>

IsEmpty(dfo) == dfo = <<>> \/ dfo[1].rows = <<>>

RowIds(rows) == {rows[i].GAME_ID : i \in 1..Len(rows)}

get_existing_game_ids(existing) ==
    IF existing = <<>> THEN {}
    ELSE IF existing[1].has_season
    THEN RowIds(SelectSeq(existing[1].rows, LAMBDA r : r.SEASON = SEASON))
    ELSE RowIds(existing[1].rows)

\* a filter that lets every row through
IsIn_Everything(rows, ids) == rows

\* df[df["GAME_ID"].isin(ids)]
IsIn(rows, ids) == SelectSeq(rows, LAMBDA r : r.GAME_ID \in ids)

\* drop_duplicates(subset=["GAME_ID", "TEAM_ID"], keep="last")
DropDuplicates(rows) ==
    LET Keep(i) == ~\E j \in (i + 1)..Len(rows) :
                        /\ rows[j].GAME_ID = rows[i].GAME_ID
                        /\ rows[j].TEAM_ID = rows[i].TEAM_ID
        F[i \in 0..Len(rows)] ==
            IF i = 0 THEN <<>>
            ELSE IF Keep(i) THEN Append(F[i - 1], rows[i]) ELSE F[i - 1]
    IN F[Len(rows)]

IdCodes(id) == [i \in 1..Len(id) |-> DigitVal[id[i]]]

\* the order of sort_values(["GAME_ID", "TEAM_ID"])
QKeyLess(r1, r2) ==
    \/ StrLess(IdCodes(r1.GAME_ID), IdCodes(r2.GAME_ID))
    \/ r1.GAME_ID = r2.GAME_ID /\ r1.TEAM_ID[1] < r2.TEAM_ID[1]

RECURSIVE QInsert(_, _)
QInsert(sorted, r) ==
    IF sorted = <<>> THEN <<r>>
    ELSE IF QKeyLess(r, sorted[Len(sorted)])
         THEN Append(QInsert(SubSeq(sorted, 1, Len(sorted) - 1), r),
                     sorted[Len(sorted)])
         ELSE Append(sorted, r)

RECURSIVE sort_values(_)
sort_values(rows) ==
    IF rows = <<>> THEN <<>>
    ELSE QInsert(sort_values(SubSeq(rows, 1, Len(rows) - 1)), rows[Len(rows)])

\* the frame cleanup_and_write hands to to_csv
CleanRows(rows, allowed_ids) ==
    LET normalized == [i \in 1..Len(rows) |->
                          [rows[i] EXCEPT !.GAME_ID = normalize_game_id(@)]]
        allowed == IsIn(normalized, allowed_ids)
        with_ints == [i \in 1..Len(allowed) |->
                         [allowed[i] EXCEPT !.TEAM_ID = safe_int0(@)]]
    IN sort_values(DropDuplicates(with_ints))

\* cleanup_and_write: the file it leaves and whether it wrote, as a pair
cleanup_and_write(full_df, allowed_ids, file) ==
    IF IsEmpty(full_df) THEN <<file, FALSE>>
    ELSE <<<<[full_df[1] EXCEPT !.rows = CleanRows(@, allowed_ids)]>>, TRUE>>

\* pd.concat([existing_df, new_df]): the union of the columns, NaN where a
\* frame lacks one
concat(df1, df2) ==
    [has_season |-> df1.has_season \/ df2.has_season,
     rows |-> df1.rows \o df2.rows]

\* the loop body of lines 294-313 keeping every row of the response
Wanted_AnyGame(rows, missing_ids) ==
    [i \in 1..Len(rows) |-> [rows[i] EXCEPT !.SEASON = SEASON]]

\* the loop body of lines 294-313 over the rows of the responses
Wanted(rows, missing_ids) ==
    LET kept == SelectSeq(rows, LAMBDA r : r.GAME_ID \in missing_ids)
    IN [i \in 1..Len(kept) |-> [kept[i] EXCEPT !.SEASON = SEASON]]

----------------------------------------------------------------------------
\* The inputs of getQuarters.py

Game1 == <<"0", "0", "2", "2", "5", "0", "0", "0", "0", "1">>
Game2 == <<"0", "0", "2", "2", "5", "0", "0", "0", "0", "2">>
\* a game of another season, which the LeagueGameLog of SEASON never lists
LastSeasonGame == <<"0", "0", "2", "2", "4", "0", "0", "0", "0", "9">>
\* Game1 as a version without zero padding wrote it
Game1Bare == <<"2", "2", "5", "0", "0", "0", "0", "1">>

QRow(gid, tid, season, pts) ==
    [GAME_ID |-> gid, TEAM_ID |-> tid, SEASON |-> season, PTS |-> pts]

\* rows of a file some earlier run, or earlier version, left on disk
FileRowDomain ==
    {QRow(Game1, <<45>>, SEASON, 98),
     QRow(Game1Bare, <<45>>, "", 97),
     QRow(Game2, <<>>, SEASON, 98),
     QRow(LastSeasonGame, <<45>>, SEASON, 98)}

\* a file without the SEASON column
WithoutSeason(rows) == [i \in 1..Len(rows) |-> [rows[i] EXCEPT !.SEASON = ""]]

FileInputs(n) ==
    {[has_season |-> TRUE, rows |-> rows] : rows \in [1..n -> FileRowDomain]}
    \cup {[has_season |-> FALSE, rows |-> WithoutSeason(rows)] :
            rows \in [1..n -> FileRowDomain]}

\* what LeagueGameLog can list for SEASON
LeagueGameLogs == {{}, {Game1}, {Game2}, {Game1, Game2}}

\* get_season_games: the normalized GAME_ID column
get_season_games(log) == {normalize_game_id(g) : g \in log}

\* the rows fetch_day_from_scoreboard can return over the requested days
ScoreboardRows ==
    <<QRow(Game1, <<45>>, "", 101),
      QRow(Game2, <<45>>, "", 101),
      QRow(Game2, <<60>>, "", 101),
      QRow(LastSeasonGame, <<60>>, "", 101)>>

\* fetch_day_from_scoreboard: GAME_ID normalized, one row per team with periods
fetch_day_from_scoreboard(picked) ==
    LET F[i \in 0..Len(ScoreboardRows)] ==
            IF i = 0 THEN <<>>
            ELSE IF i \in picked
                 THEN Append(F[i - 1],
                             [ScoreboardRows[i] EXCEPT
                                 !.GAME_ID = normalize_game_id(@)])
                 ELSE F[i - 1]
    IN F[Len(ScoreboardRows)]

----------------------------------------------------------------------------
\* getQuarters.main, run again and again over the file it leaves

InitQuarters ==
    /\ csv_exists = FALSE
    /\ csv = <<>>
    /\ Fresh
    /\ Idle
    /\ \E n \in 0..MaxFileRows :
        out_file \in {<<>>} \cup {<<f>> : f \in FileInputs(n)}
    /\ existing_df = <<>>
    /\ games_df = {}
    /\ day_rows = <<>>
    /\ all_rows = <<>>
    /\ qpc = "idle"
    /\ wrote = FALSE

\* lines 241-244: the file is absent or read
QLoad ==
    /\ qpc \in {"idle", "done"}
    /\ existing_df' = load_existing_output(out_file)
    /\ games_df' = {}
    /\ day_rows' = <<>>
    /\ all_rows' = <<>>
    /\ wrote' = FALSE
    /\ qpc' = "season"
    /\ UNCHANGED <<appvars, out_file>>

\* lines 153-158: pd.read_csv raises
QLoadError ==
    /\ qpc \in {"idle", "done"}
    /\ out_file # <<>>
    /\ existing_df' = <<>>
    /\ games_df' = {}
    /\ day_rows' = <<>>
    /\ all_rows' = <<>>
    /\ wrote' = FALSE
    /\ qpc' = "season"
    /\ UNCHANGED <<appvars, out_file>>

\* lines 247-268: the season's games, and the run that has nothing to fetch
QSeason ==
    /\ qpc = "season"
    /\ \E log \in LeagueGameLogs :
        LET gdf == get_season_games(log)
            missing_ids == gdf \ get_existing_game_ids(existing_df)
            written == cleanup_and_write(existing_df, gdf, out_file)
        IN /\ games_df' = gdf
           /\ IF gdf = {} \/ (missing_ids = {} /\ IsEmpty(existing_df))
              THEN qpc' = "done" /\ UNCHANGED <<out_file, wrote>>
              ELSE IF missing_ids = {}
              THEN qpc' = "done" /\ out_file' = written[1] /\ wrote' = written[2]
              ELSE qpc' = "fetch" /\ UNCHANGED <<out_file, wrote>>
    /\ UNCHANGED <<appvars, existing_df, day_rows, all_rows>>

\* lines 271-334: the scoreboard of the days with missing games, then the write
QFetch ==
    /\ qpc = "fetch"
    /\ \E picked \in SUBSET (1..Len(ScoreboardRows)) :
        LET response_rows == fetch_day_from_scoreboard(picked)
            missing_ids == games_df \ get_existing_game_ids(existing_df)
            new_rows == Wanted(response_rows, missing_ids)
            new_df == [has_season |-> TRUE, rows |-> new_rows]
            full_df == IF new_rows = <<>> THEN existing_df
                       ELSE IF ~IsEmpty(existing_df)
                       THEN <<concat(existing_df[1], new_df)>>
                       ELSE <<new_df>>
            written == cleanup_and_write(full_df, games_df, out_file)
        IN /\ day_rows' = response_rows
           /\ all_rows' = new_rows
           /\ out_file' = written[1]
           /\ wrote' = written[2]
    /\ qpc' = "done"
    /\ UNCHANGED <<appvars, existing_df, games_df>>

NextQuarters ==
    \/ QLoad
    \/ QLoadError
    \/ QSeason
    \/ QFetch

SpecQuarters == InitQuarters /\ [][NextQuarters]_vars

----------------------------------------------------------------------------
\* compute_standings_from_csv as a function of the rows of the file

RECURSIVE Aggregate(_, _)
Aggregate(gs, n) ==
    IF n = 0 THEN <<>>
    ELSE ProcessGame(Aggregate(gs, n - 1), gs[n].rows)

StatsOf(rows) ==
    LET gs == GroupRows(rows, <<>>) IN Aggregate(gs, Len(gs))

Standings(rows) == SortRows(BuildRows(StatsOf(rows)))

----------------------------------------------------------------------------
\* Vocabulary of the properties

\* compute_standings_from_csv has returned without a warning
Returned ==
    /\ pc \in {"return", "done"}
    /\ csv_exists
    /\ warnings = <<>>

RECURSIVE SumWins(_)
SumWins(rows) ==
    IF rows = <<>> THEN 0 ELSE Head(rows).wins + SumWins(Tail(rows))

RECURSIVE SumLosses(_)
SumLosses(rows) ==
    IF rows = <<>> THEN 0 ELSE Head(rows).losses + SumLosses(Tail(rows))

IsInt(v) == IntOpt(v) # <<>>

\* every row has a GAME_ID, every GAME_ID has exactly two rows, and the two
\* rows of a game have integer points that differ
CleanPairs ==
    /\ Len(csv) = 2 * Len(games)
    /\ \A i \in 1..Len(games) :
        /\ Len(games[i].rows) = 2
        /\ IsInt(games[i].rows[1].PTS)
        /\ IsInt(games[i].rows[2].PTS)
        /\ IntOpt(games[i].rows[1].PTS) # IntOpt(games[i].rows[2].PTS)

\* every row names its team
AllIdentified ==
    \A i \in 1..Len(csv) :
        csv[i].TEAM_ID # <<>> /\ csv[i].TEAM_ABBREVIATION # ""

\* in every two-row game the home row and the away row are different rows
TwoSides ==
    \A i \in 1..Len(games) :
        Len(games[i].rows) = 2 =>
            HomeIdx(games[i].rows[1], games[i].rows[2])
                # AwayIdx(games[i].rows[1], games[i].rows[2])

----------------------------------------------------------------------------
\* C1 (as stated): when every game id has exactly two rows with distinct
\* points, the wins of all output teams and the losses of all output teams
\* both add up to the number of games.
C1_SumsEqualGames ==
    (Returned /\ CleanPairs) =>
        /\ SumWins(rows_final) = Len(games)
        /\ SumLosses(rows_final) = Len(games)

\* C1 (amended): the same, for inputs in which moreover every row has a
\* TEAM_ID and a TEAM_ABBREVIATION and the home and away sides of every
\* game resolve to its two different rows.
C1_SumsEqualGamesWellFormed ==
    (Returned /\ CleanPairs /\ AllIdentified /\ TwoSides) =>
        /\ SumWins(rows_final) = Len(games)
        /\ SumLosses(rows_final) = Len(games)

C1_Witness ==
    /\ Returned /\ CleanPairs /\ AllIdentified /\ TwoSides
    /\ Len(games) = 2
    /\ SumWins(rows_final) = 2

\* C2: in every accumulator, after any number of processed games, and in
\* every output row, home wins plus road wins are the wins and home losses
\* plus road losses are the losses.
C2_HomeRoadSplit ==
    /\ \A i \in 1..Len(team_stats) :
        /\ team_stats[i].home_w + team_stats[i].away_w = team_stats[i].wins
        /\ team_stats[i].home_l + team_stats[i].away_l = team_stats[i].losses
    /\ \A i \in 1..Len(rows_final) :
        /\ rows_final[i].home_w + rows_final[i].road_w = rows_final[i].wins
        /\ rows_final[i].home_l + rows_final[i].road_l = rows_final[i].losses

C2_Witness ==
    /\ Returned
    /\ \E i \in 1..Len(rows_final) :
        /\ rows_final[i].road_w = 1
        /\ rows_final[i].home_l = 1
        /\ rows_final[i].wins = 1
        /\ rows_final[i].losses = 1

\* length of the maximal run of results equal to the last one, at the end
TrailingRun(rs) ==
    CHOOSE k \in 1..Len(rs) :
        /\ \A j \in (Len(rs) - k + 1)..Len(rs) : rs[j] = rs[Len(rs)]
        /\ (k = Len(rs) \/ rs[Len(rs) - k] # rs[Len(rs)])

\* C3: compute_streak returns "" for no results, and otherwise "+" (last
\* result W) or "-" (last result L) followed by the decimal length of the
\* maximal trailing run of results equal to the last; W,W,L,W,W,W gives
\* "+3" and L,L,W,L gives "-1".
C3_StreakRule ==
    pc = "streak_done" =>
        /\ (results = <<>>) => (streak = <<>>)
        /\ (results # <<>>) =>
            /\ Len(streak) >= 2
            /\ streak[1] = (IF results[Len(results)] = "W" THEN "+" ELSE "-")
            /\ streak[2] # "0"
            /\ IntOpt(Tail(streak)) = <<TrailingRun(results)>>
        /\ (results = <<"W", "W", "L", "W", "W", "W">>) => (streak = <<"+", "3">>)
        /\ (results = <<"L", "L", "W", "L">>) => (streak = <<"-", "1">>)

C3_Witness ==
    /\ pc = "streak_done"
    /\ results = <<"W", "W", "L", "W", "W", "W">>
    /\ streak = <<"+", "3">>

----------------------------------------------------------------------------
\* The rows of the file without those of one game, and with every missing
\* PTS written as 0

RECURSIVE Without(_, _)
Without(rows, gid) ==
    IF rows = <<>> THEN <<>>
    ELSE IF Head(rows).GAME_ID = gid THEN Without(Tail(rows), gid)
    ELSE <<Head(rows)>> \o Without(Tail(rows), gid)

ZeroFilled(rows) ==
    [i \in 1..Len(rows) |->
        IF rows[i].PTS = <<>> THEN [rows[i] EXCEPT !.PTS = <<"0">>]
        ELSE rows[i]]

\* the call returned what it returns on the file without the rows of gid
SameAsWithout(gid) ==
    /\ rows_final = Standings(Without(csv, gid))
    /\ team_stats = StatsOf(Without(csv, gid))

TiedGames ==
    {i \in 1..Len(games) :
        /\ Len(games[i].rows) = 2
        /\ IsInt(games[i].rows[1].PTS)
        /\ IntOpt(games[i].rows[1].PTS) = IntOpt(games[i].rows[2].PTS)}

MalformedGames == {i \in 1..Len(games) : Len(games[i].rows) # 2}

HasRow(i, Test(_)) ==
    \E j \in 1..Len(games[i].rows) : Test(games[i].rows[j])

PtsMissing(row) == row.PTS = <<>>

PtsNotANumber(row) == row.PTS # <<>> /\ ~IsInt(row.PTS)

PtsUnusable(row) == PtsMissing(row) \/ PtsNotANumber(row)

\* C4: a game whose two rows have equal points contributes nothing: the
\* standings and the accumulators are those of the file without its rows.
C4_TieContributesNothing ==
    Returned => \A i \in TiedGames : SameAsWithout(games[i].gid)

C4_Witness ==
    /\ Returned
    /\ TiedGames # {}
    /\ rows_final # <<>>

\* C5: a game id with a number of rows other than two is excluded: the
\* standings and the accumulators are those of the file without its rows.
C5_MalformedGroupExcluded ==
    Returned => \A i \in MalformedGames : SameAsWithout(games[i].gid)

C5_Witness ==
    /\ Returned
    /\ MalformedGames # {}
    /\ rows_final # <<>>

\* C6 (as stated): a two-row game with a row whose points are missing or
\* not an integer is skipped as a whole.
C6_UnusablePointsSkipGame ==
    Returned =>
        \A i \in 1..Len(games) :
            (Len(games[i].rows) = 2 /\ HasRow(i, PtsUnusable))
                => SameAsWithout(games[i].gid)

\* C6 (amended): a two-row game with a row whose points are present but
\* not an integer is skipped as a whole; missing points are counted as a
\* score of 0, the standings being those of the file with 0 written in
\* place of every missing points value.
C6_NotANumberSkipsMissingIsZero ==
    Returned =>
        /\ \A i \in 1..Len(games) :
            (Len(games[i].rows) = 2 /\ HasRow(i, PtsNotANumber))
                => SameAsWithout(games[i].gid)
        /\ rows_final = Standings(ZeroFilled(csv))
        /\ team_stats = StatsOf(ZeroFilled(csv))

C6_Witness ==
    /\ Returned
    /\ \E i \in 1..Len(games) :
        /\ Len(games[i].rows) = 2
        /\ HasRow(i, PtsMissing)
        /\ ~SameAsWithout(games[i].gid)
    /\ \E i \in 1..Len(games) :
        /\ Len(games[i].rows) = 2
        /\ HasRow(i, PtsNotANumber)

----------------------------------------------------------------------------
\* Order of the output rows

FracEq(x, y) == x[1] * y[2] = y[1] * x[2]

NameKey(r) == r.team

\* position in team_stats of the accumulator an output row was built from
StatsPos(r) ==
    CHOOSE i \in 1..Len(team_stats) : team_stats[i].team_id = r.team_id

\* position in the file of the first row of the team of an output row
FirstRowPos(r) ==
    CHOOSE i \in 1..Len(csv) :
        /\ safe_int(csv[i].TEAM_ID) = r.team_id
        /\ \A j \in 1..(i - 1) : safe_int(csv[j].TEAM_ID) # r.team_id

\* r1 may stand before r2: by win_pct descending, then wins descending,
\* then name ascending, then Tie(r1, r2)
Ordered(r1, r2, Tie(_, _)) ==
    \/ FracLess(r2.win_pct, r1.win_pct)
    \/ /\ FracEq(r1.win_pct, r2.win_pct)
       /\ \/ r1.wins > r2.wins
          \/ /\ r1.wins = r2.wins
             /\ \/ StrLess(NameKey(r1), NameKey(r2))
                \/ NameKey(r1) = NameKey(r2) /\ Tie(r1, r2)

ByFirstRow(r1, r2) == FirstRowPos(r1) < FirstRowPos(r2)

ByFirstCredit(r1, r2) == StatsPos(r1) < StatsPos(r2)

\* C7 (as stated): the output rows are in the order win_pct descending,
\* wins descending, team name ascending, and rows equal on the three keys
\* in the order of the first appearance of their teams in the input.
C7_SortedTiesByFirstRow ==
    Returned =>
        \A i \in 1..Len(rows_final) : \A j \in (i + 1)..Len(rows_final) :
            Ordered(rows_final[i], rows_final[j], ByFirstRow)

\* C7 (amended): the same order, rows equal on the three keys being in the
\* order in which their teams were first credited with a counted result
\* (in a game the home side before the away side).
C7_SortedTiesByFirstCredit ==
    Returned =>
        /\ Len(rows_final) = Len(team_stats)
        /\ \A i \in 1..Len(rows_final) : \A j \in (i + 1)..Len(rows_final) :
            Ordered(rows_final[i], rows_final[j], ByFirstCredit)

\* equal win_pct: more wins come first, against the order of the names
C7_Witness ==
    /\ Returned
    /\ \E i \in 1..Len(rows_final) : \E j \in (i + 1)..Len(rows_final) :
        /\ FracEq(rows_final[i].win_pct, rows_final[j].win_pct)
        /\ rows_final[i].wins > rows_final[j].wins
        /\ StrLess(NameKey(rows_final[j]), NameKey(rows_final[i]))

----------------------------------------------------------------------------
\* C8: a missing file and a failure inside the try block both end in a
\* normal return of no rows and exactly one warning.
C8_FailSoft ==
    [][(CsvMissing \/ Fail) =>
        /\ pc' = "return"
        /\ rows_final' = <<>>
        /\ Len(warnings') = 1]_vars

\* returned after a failure that followed the building of the rows
C8_Witness ==
    /\ pc = "return"
    /\ warnings = <<ProcessingWarning>>
    /\ rows_final = <<>>
    /\ team_stats # <<>>
    /\ gi = Len(games)

\* C9: ok is true exactly when rows is not empty, and rows and warnings
\* are those compute_standings_from_csv returned.
C9_OkIffRows ==
    pc = "done" =>
        /\ response.ok <=> (response.rows # <<>>)
        /\ response.rows = rows_final
        /\ response.warnings = warnings

\* a file whose games were all dropped: no rows, no warning, ok false
C9_Witness ==
    /\ pc = "done"
    /\ csv_exists
    /\ games # <<>>
    /\ response.warnings = <<>>
    /\ response.rows = <<>>
    /\ ~response.ok

----------------------------------------------------------------------------
\* TEAM_IDs of the rows that belong to a game
ObservedIds ==
    {csv[i].TEAM_ID : i \in {j \in 1..Len(csv) : csv[j].GAME_ID # ""}}
        \ {<<>>}

\* the rows credited with a result: the home and away rows of the two-row
\* games whose points are integers that differ, when they name their team
CountedGame(g) ==
    /\ Len(g.rows) = 2
    /\ LET a == g.rows[1]
           b == g.rows[2]
           home_pts == PtsOf(g.rows[HomeIdx(a, b)])
           away_pts == PtsOf(g.rows[AwayIdx(a, b)])
       IN home_pts # <<>> /\ away_pts # <<>> /\ home_pts # away_pts

CreditedIds ==
    {r.TEAM_ID : r \in UNION {
        {games[i].rows[HomeIdx(games[i].rows[1], games[i].rows[2])],
         games[i].rows[AwayIdx(games[i].rows[1], games[i].rows[2])]} :
            i \in {k \in 1..Len(games) : CountedGame(games[k])}}}
        \ {<<>>}

RowsOfTeam(team_id) ==
    {i \in 1..Len(rows_final) : rows_final[i].team_id = safe_int(team_id)}

Zero == <<0, 1>>

\* C10 (as stated): one output row for every team_id of the input, a team
\* without counted game having no games, win_pct 0.0 and empty streaks;
\* win_pct is 0.0 exactly when wins + losses = 0, else wins / (wins + losses).
C10_OneRowPerObservedTeam ==
    Returned =>
        /\ \A t \in ObservedIds : Cardinality(RowsOfTeam(t)) = 1
        /\ \A i \in 1..Len(rows_final) :
            LET r == rows_final[i]
            IN /\ FracEq(r.win_pct, Zero) <=> (r.wins + r.losses = 0)
               /\ (r.wins + r.losses # 0) =>
                    FracEq(r.win_pct, <<r.wins, r.wins + r.losses>>)
               /\ (r.wins + r.losses = 0) =>
                    (r.streak = <<>> /\ r.streak_home = <<>>
                        /\ r.streak_away = <<>>)

\* C10 (amended): one output row for every team_id credited with at least
\* one counted result and none for any other; every output row has
\* wins + losses >= 1 and win_pct = wins / (wins + losses), which is 0.0
\* exactly when wins = 0.
C10_OneRowPerCreditedTeam ==
    Returned =>
        /\ \A t \in CreditedIds : Cardinality(RowsOfTeam(t)) = 1
        /\ \A t \in ObservedIds \ CreditedIds : RowsOfTeam(t) = {}
        /\ Len(rows_final) = Cardinality(CreditedIds)
        /\ \A i \in 1..Len(rows_final) :
            LET r == rows_final[i]
            IN /\ r.wins + r.losses >= 1
               /\ r.win_pct[2] > 0
               /\ FracEq(r.win_pct, <<r.wins, r.wins + r.losses>>)
               /\ FracEq(r.win_pct, Zero) <=> (r.wins = 0)

\* a team whose only game was dropped, beside teams with a counted game
C10_Witness ==
    /\ Returned
    /\ ObservedIds \ CreditedIds # {}
    /\ rows_final # <<>>
    /\ \E i \in 1..Len(rows_final) :
        rows_final[i].wins = 0 /\ FracEq(rows_final[i].win_pct, Zero)

----------------------------------------------------------------------------
\* Properties of the home and away assignment

\* the two-row groups of games
Pairs == {i \in 1..Len(games) : Len(games[i].rows) = 2}

\* code is the TEAM_ABBREVIATION of neither row
Unmatched(a, b, code) ==
    a.TEAM_ABBREVIATION # code /\ b.TEAM_ABBREVIATION # code

\* C13: in a two-row group, a home code that matches neither row makes the
\* first row the home row, an away code that matches neither row makes the
\* second row the away row, and the home row and the away row are always
\* the two different rows of the group.
C13_PositionalFallbackDistinct ==
    \A i \in Pairs :
        LET a == games[i].rows[1]
            b == games[i].rows[2]
        IN /\ Unmatched(a, b, HomeCode(a, b)) => HomeIdx(a, b) = 1
           /\ Unmatched(a, b, AwayCode(a, b)) => AwayIdx(a, b) = 2
           /\ HomeIdx(a, b) # AwayIdx(a, b)

\* the non-blank lexemes of a matchup, in order
Tokens(m) ==
    LET F[i \in 0..Len(m)] ==
            IF i = 0 THEN <<>>
            ELSE IF m[i] = " " THEN F[i - 1] ELSE Append(F[i - 1], m[i])
    IN F[Len(m)]

\* the matchup of a group: the first row's unless it is empty
UsedMatchup(a, b) == IF a.MATCHUP = <<>> THEN b.MATCHUP ELSE a.MATCHUP

\* C14: for every two-row group, with the tokens of the first row's matchup
\* (of the second row's when the first is empty): if "@" is a token the first
\* token is the away code and the last the home code; otherwise with at least
\* 3 tokens the first is the home code and the last the away code; otherwise
\* the home code is the first row's TEAM_ABBREVIATION and the away code the
\* second row's.  "HOU @ OKC" gives away HOU, home OKC and "OKC vs. HOU"
\* gives home OKC, away HOU.
C14_MatchupTiers ==
    \A i \in Pairs :
        LET a == games[i].rows[1]
            b == games[i].rows[2]
            toks == Tokens(UsedMatchup(a, b))
            n == Len(toks)
            home == HomeCode(a, b)
            away == AwayCode(a, b)
        IN /\ ("@" \in {toks[k] : k \in 1..n}) =>
                away = toks[1] /\ home = toks[n]
           /\ ("@" \notin {toks[k] : k \in 1..n} /\ n >= 3) =>
                home = toks[1] /\ away = toks[n]
           /\ ("@" \notin {toks[k] : k \in 1..n} /\ n < 3) =>
                home = a.TEAM_ABBREVIATION /\ away = b.TEAM_ABBREVIATION
           /\ UsedMatchup(a, b) = <<"HOU", " ", "@", " ", "OKC">> =>
                away = "HOU" /\ home = "OKC"
           /\ UsedMatchup(a, b) = <<"OKC", " ", "vs.", " ", "HOU">> =>
                home = "OKC" /\ away = "HOU"

\* a counted game whose first row has no matchup and whose second row says
\* "OKC vs. HOU": the home win went to OKC, the second row
C14_Witness ==
    /\ Returned
    /\ Len(games) = 1
    /\ Len(games[1].rows) = 2
    /\ games[1].rows[1].MATCHUP = <<>>
    /\ games[1].rows[2].MATCHUP = VsMatchup(OKC, HOU)
    /\ games[1].rows[1].TEAM_ABBREVIATION = "HOU"
    /\ \E k \in 1..Len(rows_final) :
        rows_final[k].tricode = "OKC" /\ rows_final[k].home_l = 1

----------------------------------------------------------------------------
\* Properties of the processing order

\* position in the file of the first row of a game id
FirstRowOfGame(gid) ==
    CHOOSE i \in 1..Len(csv) :
        /\ csv[i].GAME_ID = gid
        /\ \A j \in 1..(i - 1) : csv[j].GAME_ID # gid

\* the accumulators a game leaves when it is the only game
Alone(g) == ProcessGame(<<>>, g.rows)

\* the results a game gives the team stored under key, field being results,
\* home_results or away_results
ResultsIn(g, key, field) ==
    IF HasStats(Alone(g), key)
    THEN Alone(g)[StatsIdx(Alone(g), key)][field]
    ELSE <<>>

\* the results of the first n games for the team, game after game
RECURSIVE ResultsUpTo(_, _, _)
ResultsUpTo(n, key, field) ==
    IF n = 0 THEN <<>>
    ELSE ResultsUpTo(n - 1, key, field) \o ResultsIn(games[n], key, field)

\* the last game that gave the team a result of the sequence
LastGame(key, field) ==
    CHOOSE n \in 1..Len(games) :
        /\ ResultsIn(games[n], key, field) # <<>>
        /\ \A m \in (n + 1)..Len(games) : ResultsIn(games[m], key, field) = <<>>

\* a streak string carries the sign of the last result of the team's last
\* game of the sequence, and is empty when no game gave one
SignOfLast(str, key, field) ==
    IF ResultsUpTo(Len(games), key, field) = <<>> THEN str = <<>>
    ELSE LET last == ResultsIn(games[LastGame(key, field)], key, field)
         IN str # <<>> /\
            str[1] = (IF last[Len(last)] = "W" THEN "+" ELSE "-")

\* C15: the games stand in the order of the first row of each game id in the
\* file and are processed in that order; after any number of processed games
\* each team's results, home_results and away_results are the results of the
\* processed games for that team, game after game in that order; and each
\* streak string of an output row has the sign of the team's last counted
\* game in that order, wherever the rows of the games stand in the file.
C15_ResultsInFirstAppearanceOrder ==
    (pc \in {"games", "sort", "return", "done"} /\ warnings = <<>>) =>
        /\ \A i, j \in 1..Len(games) :
            i < j => FirstRowOfGame(games[i].gid) < FirstRowOfGame(games[j].gid)
        /\ \A t \in 1..Len(team_stats) :
            /\ team_stats[t].results
                = ResultsUpTo(gi, team_stats[t].key, "results")
            /\ team_stats[t].home_results
                = ResultsUpTo(gi, team_stats[t].key, "home_results")
            /\ team_stats[t].away_results
                = ResultsUpTo(gi, team_stats[t].key, "away_results")
        /\ \A k \in 1..Len(rows_final) :
            LET key == team_stats[StatsPos(rows_final[k])].key
            IN /\ SignOfLast(rows_final[k].streak, key, "results")
               /\ SignOfLast(rows_final[k].streak_home, key, "home_results")
               /\ SignOfLast(rows_final[k].streak_away, key, "away_results")

\* a file whose rows alternate between two games, both counted, in which a
\* team lost the game that appears first and won the other
C15_Witness ==
    /\ Returned
    /\ Len(csv) = 4
    /\ csv[1].GAME_ID = csv[3].GAME_ID
    /\ csv[2].GAME_ID = csv[4].GAME_ID
    /\ csv[1].GAME_ID # csv[2].GAME_ID
    /\ \E k \in 1..Len(rows_final) :
        /\ team_stats[StatsPos(rows_final[k])].results = <<"L", "W">>
        /\ rows_final[k].streak = <<"+", "1">>

----------------------------------------------------------------------------
\* Properties of getQuarters.main

\* a run of main has returned
RunOver == qpc = "done"

RowSet(rows) == {rows[i] : i \in 1..Len(rows)}

RowsOf(rows, gid) == {r \in RowSet(rows) : r.GAME_ID = gid}

\* the rows of the file as the next run would load them
NewRows == IF out_file = <<>> THEN <<>> ELSE load_existing_output(out_file)[1].rows

\* the rows of the file as this run loaded them
OldRows == IF existing_df = <<>> THEN <<>> ELSE existing_df[1].rows

IsNormalized(gid) ==
    /\ Len(gid) = IdWidth
    /\ \A i \in 1..Len(gid) : gid[i] \in DOMAIN DigitVal

\* C11: whenever a run of getQuarters.main writes the file, every row of the
\* written file has a GAME_ID of 10 digits that is in the GAME_ID set of the
\* season's LeagueGameLog; no row of the previous file or of the scoreboard
\* responses with a GAME_ID outside that set is in it.
C11_WrittenIdsInSeason ==
    (RunOver /\ wrote) =>
        \A i \in 1..Len(out_file[1].rows) :
            /\ IsNormalized(out_file[1].rows[i].GAME_ID)
            /\ out_file[1].rows[i].GAME_ID \in games_df

\* a run wrote a file with rows after loading a row of a game outside the
\* season and being served a row of such a game
C11_Witness ==
    /\ RunOver
    /\ wrote
    /\ out_file[1].rows # <<>>
    /\ RowIds(OldRows) \ games_df # {}
    /\ RowIds(day_rows) \ games_df # {}

\* what the run leaves of the rows it loaded
Kept == IF wrote THEN CleanRows(OldRows, games_df) ELSE OldRows

\* rows are added only for the season's games outside ids, and the rows of the
\* games in ids are those the run loaded
Incremental(ids) ==
    /\ \A r \in RowSet(NewRows) \ RowSet(Kept) : r.GAME_ID \in games_df \ ids
    /\ \A gid \in ids : RowsOf(NewRows, gid) = RowsOf(Kept, gid)

====
